---- MODULE Spec2Model ----
(***************************************************************************)
(* The Telegram facade of src/src/telegram.js as a state machine.          *)
(*                                                                         *)
(* One Facade object, the objects it allocates (schema objects and their   *)
(* two namespace roots), the TelegramClient objects it hands out and the   *)
(* transport layer's key store.  Every method of the class is one action;  *)
(* the program is single-threaded and synchronous, so a method runs to its *)
(* return or to its throw inside one step.                                 *)
(*                                                                         *)
(* JavaScript values are tagged tuples, so that undefined, null, strings   *)
(* and object references are distinct values of one kind:                  *)
(*   <<"undefined">>  <<"null">>  <<"string", s>>  <<"object", id>>        *)
(***************************************************************************)
EXTENDS Integers, Sequences, FiniteSets, TLC

VARIABLES
    constructed,  \* TRUE once `new Telegram(...)` has returned a Facade
    MTProto,      \* this.MTProto
    TL,           \* this.TL
    schema,       \* this.schema (undefined until useSchema completes)
    heap,         \* object id -> object, for schema objects and root nodes
    clients,      \* client id -> the fields a TelegramClient was built with
    keyStore,     \* calls received by MTProto.security.PublicKey.addKey
    addedKeys,    \* history: descriptors passed to addPublicKey, in order
    imported,     \* history: arguments of the useSchema calls that returned
    last          \* history: the latest call and its outcome (with the
                  \* arguments of a constructor or useSchema call)

vars == <<constructed, MTProto, TL, schema, heap, clients, keyStore,
          addedKeys, imported, last>>

-----------------------------------------------------------------------------
(* Bounds of the exploration *)

MaxImports == 2      \* useSchema calls that return
MaxClients == 2      \* createClient calls that return
MaxKeys    == 2      \* addPublicKey calls

-----------------------------------------------------------------------------
(* JavaScript values *)

Undefined == <<"undefined">>
Null      == <<"null">>
Str(s)    == <<"string", s>>
Ref(id)   == <<"object", id>>
Layer(n)  == <<"layer", n>>
Key(k)    == <<"key", k>>

IsRef(v)  == v[1] = "object"

\* JavaScript truthiness of the values the model uses (no empty strings)
Truthy(v) == v # Undefined /\ v # Null

\* A parameter default `p = d` applies when the argument is undefined
DefaultParam(v, d) == IF v = Undefined THEN d ELSE v

\* Property access `o.p` throws a TypeError when o is undefined or null
Nullish(v) == v = Undefined \/ v = Null

-----------------------------------------------------------------------------
(* The schema layer's Type Builder, TL.TypeBuilder.buildTypes               *)
(*                                                                         *)
(* A declaration name is its dotted path, a sequence of segments.  A       *)
(* namespace root is an object {_id, ...}; the branches and leaves the     *)
(* builder hangs below it are kept flat, one entry per path, each with the *)
(* _id the builder gives it: the root's _id followed by the path.          *)

Map(names) == <<"map", names>>
Desc(c, m) == <<"description", c, m>>

constructorsOf(d) == d[2]
methodsOf(d)      == d[3]

\* `{_id: prefix}`: a root with nothing below it
NewRoot(prefix) == [_id |-> prefix, nodes |-> {}]

ProperPrefixes(path) == {SubSeq(path, 1, k) : k \in 1..(Len(path) - 1)}

LeafKind(isMethodType) == IF isMethodType THEN "method" ELSE "type"

\* A declaration cannot be placed when a segment of its path is already a
\* leaf, or when its own path is already occupied.
Collides(root, path) ==
    \E n \in root.nodes :
        \/ n.path = path
        \/ n.path \in ProperPrefixes(path) /\ n.kind # "branch"

\* Expand one declaration below root, in place: the missing branches, then
\* the leaf.
InsertDecl(root, path, isMethodType) ==
    LET have     == {n.path : n \in root.nodes}
        branches == {[path |-> q, kind |-> "branch", _id |-> <<root._id>> \o q] :
                        q \in ProperPrefixes(path) \ have}
        leaf     == [path |-> path, kind |-> LeafKind(isMethodType),
                     _id |-> <<root._id>> \o path]
    IN  [root EXCEPT !.nodes = @ \cup branches \cup {leaf}]

\* The declarations from position i on, in the mapping's order.  The builder
\* raises at the first declaration that collides; what it placed before that
\* stays in the root.
RECURSIVE BuildFrom(_, _, _, _)
BuildFrom(names, i, root, isMethodType) ==
    IF i > Len(names) THEN [ok |-> TRUE, root |-> root]
    ELSE IF Collides(root, names[i]) THEN [ok |-> FALSE, root |-> root]
    ELSE BuildFrom(names, i + 1, InsertDecl(root, names[i], isMethodType),
                   isMethodType)

\* buildTypes(schemas, null, targetModule, isMethodType).  It iterates over
\* schemas, so an absent mapping raises before anything is placed.
buildTypes(schemas, targetModule, isMethodType) ==
    IF Nullish(schemas) THEN [ok |-> FALSE, root |-> targetModule]
    ELSE BuildFrom(schemas[2], 1, targetModule, isMethodType)

-----------------------------------------------------------------------------
(* Inputs *)

TypeFoo == <<"foo", "TypeFoo">>
callFoo == <<"foo", "callFoo">>
foo     == <<"foo">>

\* absent, empty, one declaration, a declaration under a leaf (a collision)
ConstructorMaps == {Undefined, Map(<<>>), Map(<<TypeFoo>>), Map(<<foo, TypeFoo>>)}
MethodMaps      == {Undefined, Map(<<callFoo>>), Map(<<foo, callFoo>>)}

Descriptions == {Undefined} \cup {Desc(c, m) : c \in ConstructorMaps, m \in MethodMaps}

\* the descriptions used when every operation of the Facade is interleaved
FewDescriptions ==
    {Undefined,
     Desc(Map(<<TypeFoo>>), Map(<<callFoo>>)),
     Desc(Map(<<>>), Undefined)}

\* <<typePrefix, servicePrefix>>: both omitted, or both given as in the
\* example of useSchema's comment
PrefixArgs == {<<Undefined, Undefined>>, <<Str("types"), Str("methods")>>}

\* what `new Telegram(..)` may be handed for each layer
MTProtoArgs == {Undefined, Null, Layer("MTProto")}
TLArgs      == {Undefined, Null, Layer("TL")}

\* key descriptors: objects with the three fields and possibly more
KeyObjects ==
    {Key([fingerprint |-> Str(f), modulus |-> Str("m"), exponent |-> e, comment |-> c]) :
        f \in {"0xAB", "0xCD"}, e \in {Str("010001"), Undefined},
        c \in {Undefined, Str("main")}}

FewKeyObjects ==
    {Key([fingerprint |-> Str("0xAB"), modulus |-> Str("m"),
          exponent |-> Str("010001"), comment |-> Undefined])}

\* arguments of the pass-through operations
AuthKeyIds == {Str("id")}
AuthBodies == {Str("body")}
Buffers    == {<<"buffer", "k1">>}
Passwords  == {Str("password")}
Strings    == {Str("abc")}
Lengths    == {Undefined, <<"number", 8>>}
Sizes      == {Undefined, <<"number", 16>>}

\* how a call into the transport layer can end
Outcomes == {"ok", "TransportError"}

-----------------------------------------------------------------------------
(* State after the module is loaded: no Facade yet *)

NoCall == [op |-> "none", args |-> <<>>, result |-> "ok", ret |-> Undefined]

Init ==
    /\ constructed = FALSE
    /\ MTProto = Undefined
    /\ TL = Undefined
    /\ schema = Undefined
    /\ heap = <<>>
    /\ clients = <<>>
    /\ keyStore = <<>>
    /\ addedKeys = <<>>
    /\ imported = <<>>
    /\ last = NoCall

Call(op, args, result, ret) ==
    [op |-> op, args |-> args, result |-> result, ret |-> ret]

-----------------------------------------------------------------------------
(* constructor(MTProto, TL) *)

\* (variant) `!MTProto && !TL`
MissingLayer_both(m, t) == ~Truthy(m) /\ ~Truthy(t)

\* `!MTProto || !TL`
MissingLayer(m, t) == ~Truthy(m) \/ ~Truthy(t)

Constructor(m, t) ==
    /\ ~constructed
    /\ IF MissingLayer(m, t)
       THEN /\ last' = Call("constructor", <<m, t>>, "Error", Undefined)
            /\ UNCHANGED <<constructed, MTProto, TL>>
       ELSE /\ constructed' = TRUE
            /\ MTProto' = m
            /\ TL' = t
            /\ last' = Call("constructor", <<m, t>>, "ok", Undefined)
    /\ UNCHANGED <<schema, heap, clients, keyStore, addedKeys, imported>>

-----------------------------------------------------------------------------
(* useSchema(schema, typePrefix, servicePrefix) *)

DefaultTypePrefix == Str("Telegram.type")

\* (variant) the two defaults mixed up
DefaultServicePrefix_swapped == Str("Telegram.type")

DefaultServicePrefix == Str("Telegram.service")

\* (variant) the type root of the previous import used again
TypeTarget_reused(h, typePrefix) ==
    IF IsRef(schema)
    THEN [id |-> h[schema[2]].type[2], obj |-> h[h[schema[2]].type[2]]]
    ELSE [id |-> Len(h) + 1,
          obj |-> NewRoot(DefaultParam(typePrefix, DefaultTypePrefix))]

\* `var type = {_id: typePrefix}`: a new object, placed after the objects
\* that exist in h
TypeTarget(h, typePrefix) ==
    [id |-> Len(h) + 1, obj |-> NewRoot(DefaultParam(typePrefix, DefaultTypePrefix))]

\* `var service = {_id: servicePrefix}`
ServiceTarget(h, servicePrefix) ==
    [id |-> Len(h) + 1, obj |-> NewRoot(DefaultParam(servicePrefix, DefaultServicePrefix))]

\* the heap with object id holding obj (a new object is appended)
Write(h, id, obj) ==
    IF id \in DOMAIN h THEN [h EXCEPT ![id] = obj] ELSE Append(h, obj)

\* (variant) `this.schema.type = type; this.schema.service = service` on the existing
\* schema object
SchemaTarget_inPlace(h) == IF IsRef(schema) THEN schema[2] ELSE Len(h) + 1

\* `{type, service}`: the schema object is a new object too
SchemaTarget(h) == Len(h) + 1

\* (variant) the assignment placed before the second buildTypes call
StoresSchema_early(bT, bS) == bT.ok

\* `this.schema = {type, service}` is the last statement: it runs when both
\* buildTypes calls have returned
StoresSchema(bT, bS) == bT.ok /\ bS.ok

\* `buildTypes(schema.constructors, null, type, false)`
BuildConstructors(d, tT) == buildTypes(constructorsOf(d), tT.obj, FALSE)

\* (variant) `if (schema.methods) buildTypes(schema.methods, ...)`
BuildServices_ifPresent(d, sT) ==
    IF Nullish(methodsOf(d)) THEN [ok |-> TRUE, root |-> sT.obj]
    ELSE buildTypes(methodsOf(d), sT.obj, TRUE)

\* `buildTypes(schema.methods, null, service, true)`
BuildServices(d, sT) == buildTypes(methodsOf(d), sT.obj, TRUE)

useSchema(d, typePrefix, servicePrefix) ==
    /\ constructed
    /\ IF Nullish(d)
       THEN \* `schema.constructors` throws
            /\ last' = Call("useSchema", <<d>>,
                            "TypeError", Undefined)
            /\ UNCHANGED <<schema, heap, imported>>
       ELSE LET tT == TypeTarget(heap, typePrefix)
                bT == BuildConstructors(d, tT)
                h1 == Write(heap, tT.id, bT.root)
                sT == ServiceTarget(h1, servicePrefix)
                bS == IF bT.ok THEN BuildServices(d, sT)
                               ELSE [ok |-> FALSE, root |-> sT.obj]
                h2 == Write(h1, sT.id, bS.root)
                oI == SchemaTarget(h2)
                h3 == Write(h2, oI, [type |-> Ref(tT.id), service |-> Ref(sT.id)])
            IN  /\ IF StoresSchema(bT, bS)
                   THEN /\ Len(imported) < MaxImports
                        /\ heap' = h3
                        /\ schema' = Ref(oI)
                   ELSE \* the objects this call allocated are unreachable
                        \* once it has thrown; older objects keep what was
                        \* written into them
                        /\ heap' = SubSeq(IF bT.ok THEN h2 ELSE h1, 1, Len(heap))
                        /\ UNCHANGED schema
                /\ IF bT.ok /\ bS.ok
                   THEN /\ imported' = Append(imported,
                               [description |-> d,
                                typePrefix |-> typePrefix,
                                servicePrefix |-> servicePrefix])
                        /\ last' = Call("useSchema", <<d>>,
                                        "ok", Undefined)
                   ELSE /\ UNCHANGED imported
                        /\ last' = Call("useSchema", <<d>>,
                                        "SchemaError", Undefined)
    /\ UNCHANGED <<constructed, MTProto, TL, clients, keyStore, addedKeys>>

-----------------------------------------------------------------------------
(* createClient() *)

\* `new TelegramClient(schema, MTProto, TL)`: the client keeps the three
\* references it is given.  createdAfter is history: how many imports had
\* completed when the client was made.
TelegramClient(s, m, t) ==
    [schema |-> s, MTProto |-> m, TL |-> t, createdAfter |-> Len(imported)]

\* (variant) one client object, made once and handed out again
ClientId_cached == IF clients = <<>> THEN Len(clients) + 1 ELSE Len(clients)

\* `new` makes an object that did not exist before
ClientId == Len(clients) + 1

\* (variant) createClient with a guard on this.schema
createClient_guarded ==
    /\ constructed
    /\ Len(clients) < MaxClients
    /\ IF schema = Undefined
       THEN /\ last' = Call("createClient", <<>>, "NotInitializedError", Undefined)
            /\ UNCHANGED clients
       ELSE /\ clients' = Write(clients, ClientId, TelegramClient(schema, MTProto, TL))
            /\ last' = Call("createClient", <<>>, "ok", <<"client", ClientId>>)
    /\ UNCHANGED <<constructed, MTProto, TL, schema, heap, keyStore, addedKeys,
                   imported>>

createClient ==
    /\ constructed
    /\ Len(clients) < MaxClients
    /\ clients' = Write(clients, ClientId, TelegramClient(schema, MTProto, TL))
    /\ last' = Call("createClient", <<>>, "ok", <<"client", ClientId>>)
    /\ UNCHANGED <<constructed, MTProto, TL, schema, heap, keyStore, addedKeys,
                   imported>>

-----------------------------------------------------------------------------
(* addPublicKey(key) *)

\* (variant) modulus and exponent exchanged in the object literal
KeyTriple_swapped(key) ==
    [fingerprint |-> key[2].fingerprint,
     modulus     |-> key[2].exponent,
     exponent    |-> key[2].modulus]

\* `let { fingerprint, modulus, exponent } = key` and the object literal
\* handed to addKey
KeyTriple(key) ==
    [fingerprint |-> key[2].fingerprint,
     modulus     |-> key[2].modulus,
     exponent    |-> key[2].exponent]

addPublicKey(key, outcome) ==
    /\ constructed
    /\ IF Nullish(key)
       THEN \* destructuring undefined throws before the key store is called
            /\ outcome = "ok"
            /\ last' = Call("addPublicKey", <<>>, "TypeError", Undefined)
            /\ UNCHANGED <<keyStore, addedKeys>>
       ELSE /\ Len(addedKeys) < MaxKeys
            /\ keyStore' = Append(keyStore, KeyTriple(key))
            /\ addedKeys' = Append(addedKeys, key)
            /\ last' = Call("addPublicKey", <<>>, outcome, Undefined)
    /\ UNCHANGED <<constructed, MTProto, TL, schema, heap, clients, imported>>

-----------------------------------------------------------------------------
(* The pass-through operations.  Each is one call into the transport layer, *)
(* which returns a value or raises; the Facade passes either on.            *)

Returned(outcome, v) == IF outcome = "ok" THEN v ELSE Undefined

createAuthKey(authKeyId, authKeyBody, outcome) ==
    /\ constructed
    /\ last' = Call("createAuthKey", <<>>, outcome,
                    Returned(outcome, <<"AuthKey", authKeyId, authKeyBody>>))
    /\ UNCHANGED <<constructed, MTProto, TL, schema, heap, clients, keyStore,
                   addedKeys, imported>>

\* (variant) decryptKey dropping the imported schema
decryptKey_resets(keyBuffer, keyPassword, outcome) ==
    /\ constructed
    /\ schema' = Undefined
    /\ last' = Call("decryptKey", <<>>, outcome,
                    Returned(outcome, <<"AuthKey", "decrypted", keyBuffer>>))
    /\ UNCHANGED <<constructed, MTProto, TL, heap, clients, keyStore,
                   addedKeys, imported>>

decryptKey(keyBuffer, keyPassword, outcome) ==
    /\ constructed
    /\ last' = Call("decryptKey", <<>>, outcome,
                    Returned(outcome, <<"AuthKey", "decrypted", keyBuffer>>))
    /\ UNCHANGED <<constructed, MTProto, TL, schema, heap, clients, keyStore,
                   addedKeys, imported>>

string2Buffer(string, length, outcome) ==
    /\ constructed
    /\ last' = Call("string2Buffer", <<>>, outcome,
                    Returned(outcome, <<"buffer", string[2]>>))
    /\ UNCHANGED <<constructed, MTProto, TL, schema, heap, clients, keyStore,
                   addedKeys, imported>>

buffer2String(buffer, length, outcome) ==
    /\ constructed
    /\ last' = Call("buffer2String", <<>>, outcome,
                    Returned(outcome, Str(buffer[2])))
    /\ UNCHANGED <<constructed, MTProto, TL, schema, heap, clients, keyStore,
                   addedKeys, imported>>

DefaultSize == <<"number", 128>>

\* createRandomBuffer(size), then buffer2String(buffer): the second call is
\* made only when the first returned
createRandomPassword(size, outcome1, outcome2) ==
    /\ constructed
    /\ outcome1 # "ok" => outcome2 = "ok"
    /\ LET n      == DefaultParam(size, DefaultSize)
           result == IF outcome1 # "ok" THEN outcome1 ELSE outcome2
       IN  last' = Call("createRandomPassword", <<>>, result,
                        Returned(result, <<"string", "random", n[2]>>))
    /\ UNCHANGED <<constructed, MTProto, TL, schema, heap, clients, keyStore,
                   addedKeys, imported>>

-----------------------------------------------------------------------------

(* Every operation of the Facade, interleaved in any order *)
Next ==
    \/ \E m \in MTProtoArgs, t \in TLArgs : Constructor(m, t)
    \/ \E d \in FewDescriptions : useSchema(d, Undefined, Undefined)
    \/ createClient
    \/ \E k \in {Undefined} \cup FewKeyObjects, o \in Outcomes : addPublicKey(k, o)
    \/ \E i \in AuthKeyIds, b \in AuthBodies, o \in Outcomes : createAuthKey(i, b, o)
    \/ \E b \in Buffers, p \in Passwords, o \in Outcomes : decryptKey(b, p, o)
    \/ \E s \in Strings, n \in Lengths, o \in Outcomes : string2Buffer(s, n, o)
    \/ \E b \in Buffers, n \in Lengths, o \in Outcomes : buffer2String(b, n, o)
    \/ \E n \in Sizes, o1 \in Outcomes, o2 \in Outcomes : createRandomPassword(n, o1, o2)

Spec == Init /\ [][Next]_vars

(* Schema import and client creation, over every description and prefix *)
NextSchema ==
    \/ \E m \in MTProtoArgs, t \in TLArgs : Constructor(m, t)
    \/ \E d \in Descriptions, pp \in PrefixArgs : useSchema(d, pp[1], pp[2])
    \/ createClient

SpecSchema == Init /\ [][NextSchema]_vars

(* Key registration, over every key descriptor *)
NextKeys ==
    \/ \E m \in MTProtoArgs, t \in TLArgs : Constructor(m, t)
    \/ \E k \in {Undefined} \cup KeyObjects, o \in Outcomes : addPublicKey(k, o)

SpecKeys == Init /\ [][NextKeys]_vars

-----------------------------------------------------------------------------
(* What a holder of a schema reference sees through it: the two roots and  *)
(* everything below them.                                                  *)

SchemaView(h, s) ==
    IF IsRef(s)
    THEN <<"schema", DOMAIN h[s[2]], h[h[s[2]].type[2]], h[h[s[2]].service[2]]>>
    ELSE Undefined

Absent(v) == v = Undefined \/ v = Null

LastImport == imported[Len(imported)]

\* The tree a description's mapping denotes below a root: a leaf for every
\* declared name, a branch for every proper prefix of one.
Range(f) == {f[i] : i \in DOMAIN f}

DeclaredNodes(names, prefix, kind) ==
    {[path |-> p, kind |-> kind, _id |-> <<prefix>> \o p] : p \in Range(names)}
    \cup {[path |-> q, kind |-> "branch", _id |-> <<prefix>> \o q] :
            q \in UNION {ProperPrefixes(p) : p \in Range(names)}}

-----------------------------------------------------------------------------
(* C1 *)

\* C1 (as claimed): createClient on a Facade on which no useSchema has ever
\* succeeded fails with NotInitializedError and produces no client.
C1_FailsNotInitialized ==
    (last.op = "createClient" /\ imported = <<>>)
        => (last.result = "NotInitializedError" /\ clients = <<>>)

\* C1 (amended): createClient on a Facade on which no useSchema has ever
\* succeeded does not fail; it returns a new client whose schema is
\* undefined.
C1_ClientWithUndefinedSchema ==
    (last.op = "createClient" /\ imported = <<>>)
        => /\ last.result = "ok"
           /\ last.ret[2] \in DOMAIN clients
           /\ clients[last.ret[2]].schema = Undefined

C1_Witness ==
    /\ last.op = "createClient"
    /\ imported = <<>>
    /\ clients # <<>>

-----------------------------------------------------------------------------
(* C2 *)

\* C2: in every step, each existing client still references the schema
\* object it referenced before the step, and the two trees seen through that
\* reference are what they were.
C2_ClientKeepsSchema ==
    [][\A c \in DOMAIN clients :
          /\ c \in DOMAIN clients'
          /\ clients'[c].schema = clients[c].schema
          /\ SchemaView(heap', clients'[c].schema)
                = SchemaView(heap, clients[c].schema)]_vars

\* a client made after the first import, followed by a second import
C2_Witness ==
    \E c \in DOMAIN clients :
        /\ clients[c].createdAfter = 1
        /\ Len(imported) = 2
        /\ clients[c].schema # schema

-----------------------------------------------------------------------------
(* C3 *)

\* C3: a useSchema call that throws leaves this.schema, and the trees seen
\* through it, as they were before the call.
C3_FailedImportChangesNothing ==
    [][(last'.op = "useSchema" /\ last'.result # "ok")
          => /\ schema' = schema
             /\ SchemaView(heap', schema') = SchemaView(heap, schema)]_vars

\* {constructors: {}, methods: undefined} after a successful import
C3_Witness ==
    /\ last.op = "useSchema"
    /\ last.args = <<Desc(Map(<<>>), Undefined)>>
    /\ last.result = "SchemaError"
    /\ IsRef(schema)

-----------------------------------------------------------------------------
(* C4 *)

\* C4: a useSchema call whose description has no constructors, or no
\* methods, throws the builder's error, whatever the other field holds.
C4_MissingFieldFails ==
    (/\ last.op = "useSchema"
     /\ ~Nullish(last.args[1])
     /\ \/ Absent(constructorsOf(last.args[1]))
        \/ Absent(methodsOf(last.args[1])))
        => last.result = "SchemaError"

\* methods missing, constructors present and valid
C4_Witness ==
    /\ last.op = "useSchema"
    /\ last.args = <<Desc(Map(<<TypeFoo>>), Undefined)>>
    /\ last.result = "SchemaError"

-----------------------------------------------------------------------------
(* C5 *)

\* C5: this.schema is undefined until an import succeeds, and from then on
\* it has exactly the roots and the entries of the latest successful
\* import's description and prefixes.
C5_LatestImportOnly ==
    IF imported = <<>> THEN schema = Undefined
    ELSE /\ IsRef(schema)
         /\ LET a  == LastImport
                tp == IF a.typePrefix = Undefined THEN Str("Telegram.type")
                      ELSE a.typePrefix
                sp == IF a.servicePrefix = Undefined THEN Str("Telegram.service")
                      ELSE a.servicePrefix
                o  == heap[schema[2]]
            IN  /\ heap[o.type[2]]
                     = [_id |-> tp,
                        nodes |-> DeclaredNodes(constructorsOf(a.description)[2],
                                                tp, "type")]
                /\ heap[o.service[2]]
                     = [_id |-> sp,
                        nodes |-> DeclaredNodes(methodsOf(a.description)[2],
                                                sp, "method")]

\* a second import that declares less than the first
C5_Witness ==
    /\ Len(imported) = 2
    /\ constructorsOf(imported[1].description) = Map(<<TypeFoo>>)
    /\ constructorsOf(imported[2].description) = Map(<<>>)
    /\ imported[1].typePrefix # imported[2].typePrefix

-----------------------------------------------------------------------------
(* C6 *)

\* C6: after a successful useSchema the schema object has exactly the two
\* roots type and service; type._id is the type prefix passed, or
\* "Telegram.type" when none was, and service._id is the service prefix
\* passed, or "Telegram.service" when none was.
C6_RootIds ==
    (last.op = "useSchema" /\ last.result = "ok")
        => /\ IsRef(schema)
           /\ DOMAIN heap[schema[2]] = {"type", "service"}
           /\ heap[heap[schema[2]].type[2]]._id
                = (IF LastImport.typePrefix = Undefined
                   THEN Str("Telegram.type") ELSE LastImport.typePrefix)
           /\ heap[heap[schema[2]].service[2]]._id
                = (IF LastImport.servicePrefix = Undefined
                   THEN Str("Telegram.service") ELSE LastImport.servicePrefix)

\* an import with both prefixes omitted, after one with both given
C6_Witness ==
    /\ last.op = "useSchema"
    /\ last.result = "ok"
    /\ Len(imported) = 2
    /\ imported[1].typePrefix = Str("types")
    /\ imported[1].servicePrefix = Str("methods")
    /\ LastImport.typePrefix = Undefined
    /\ LastImport.servicePrefix = Undefined

-----------------------------------------------------------------------------
(* C7 *)

\* C7: a step of any operation other than the constructor and useSchema
\* leaves this.schema, the objects reachable from it, this.MTProto and
\* this.TL unchanged, whether the operation returns or throws.
C7_OnlyUseSchemaWrites ==
    [][last'.op \notin {"constructor", "useSchema"}
          => /\ schema' = schema
             /\ heap' = heap
             /\ MTProto' = MTProto
             /\ TL' = TL]_vars

\* a pass-through operation that throws, on a Facade holding a schema
C7_Witness ==
    /\ last.op = "decryptKey"
    /\ last.result = "TransportError"
    /\ IsRef(schema)
    /\ clients # <<>>
    /\ keyStore # <<>>

-----------------------------------------------------------------------------
(* C8 *)

\* C8: a createClient call returns a client that did not exist before,
\* holding this.schema, this.MTProto and this.TL as they are at the call, and
\* leaves the earlier clients alone; clients made with no successful import
\* between them hold the same schema reference, clients made on either side
\* of one hold different ones, and a client made since the latest import
\* holds the current one.
C8_FreshClientBoundToCurrent ==
    /\ [][(last'.op = "createClient" /\ last'.result = "ok")
            => /\ last'.ret[2] \notin DOMAIN clients
               /\ DOMAIN clients' = DOMAIN clients \cup {last'.ret[2]}
               /\ clients'[last'.ret[2]].schema = schema
               /\ clients'[last'.ret[2]].MTProto = MTProto
               /\ clients'[last'.ret[2]].TL = TL
               /\ \A c \in DOMAIN clients : clients'[c] = clients[c]]_vars
    /\ [](\A c1, c2 \in DOMAIN clients :
            /\ (clients[c1].createdAfter = clients[c2].createdAfter)
                  <=> (clients[c1].schema = clients[c2].schema)
            /\ clients[c1].createdAfter = Len(imported)
                  => clients[c1].schema = schema)

\* one client made after the first import, one after the second
C8_Witness ==
    /\ Len(clients) = 2
    /\ clients[1].createdAfter = 1
    /\ clients[2].createdAfter = 2
    /\ last.op = "createClient"

-----------------------------------------------------------------------------
(* C9 *)

\* C9: the key store has received one call for each descriptor passed to
\* addPublicKey, in the order of the calls, each carrying the descriptor's
\* fingerprint, modulus and exponent and nothing else.
C9_KeyStoreReceivesTriples ==
    /\ Len(keyStore) = Len(addedKeys)
    /\ \A i \in DOMAIN addedKeys :
          /\ DOMAIN keyStore[i] = {"fingerprint", "modulus", "exponent"}
          /\ keyStore[i].fingerprint = addedKeys[i][2].fingerprint
          /\ keyStore[i].modulus = addedKeys[i][2].modulus
          /\ keyStore[i].exponent = addedKeys[i][2].exponent

\* two registrations of different keys, the second rejected by the store
C9_Witness ==
    /\ Len(addedKeys) = 2
    /\ addedKeys[1][2].fingerprint # addedKeys[2][2].fingerprint
    /\ addedKeys[1][2].comment # Undefined
    /\ last.op = "addPublicKey"
    /\ last.result = "TransportError"

-----------------------------------------------------------------------------
(* C10 *)

\* C10: the constructor throws exactly when the transport-layer or the
\* schema-layer reference is absent, and then there is no Facade; otherwise
\* the Facade holds the two references it was given and no schema.
C10_Construction ==
    last.op = "constructor"
        => /\ (last.result = "Error")
                 <=> (Absent(last.args[1]) \/ Absent(last.args[2]))
           /\ last.result = "Error" => ~constructed
           /\ last.result # "Error"
                 => /\ last.result = "ok"
                    /\ constructed
                    /\ MTProto = last.args[1]
                    /\ TL = last.args[2]
                    /\ schema = Undefined
                    /\ heap = <<>>

\* only the schema layer is missing
C10_Witness ==
    /\ last.op = "constructor"
    /\ last.args = <<Layer("MTProto"), Null>>
    /\ last.result = "Error"
    /\ ~constructed

====
